---- MODULE Spec2Model ----
(***************************************************************************)
(* Model of acmoj_client.py: one run of the command-line client, from the  *)
(* command line, the environment and the file system it starts with, to    *)
(* the process's exit.  The remote service and the network are the         *)
(* environment: the reply to the one blocking requests.get / requests.post *)
(* call is chosen nondeterministically.                                    *)
(***************************************************************************)
EXTENDS Integers, Sequences, FiniteSets, TLC

VARIABLES
    argv_token,     \* value of --token on the command line, PyNone when absent
    environ_token,  \* os.environ.get("ACMOJ_TOKEN"), PyNone when unset
    argv,           \* the sub-command and its options as typed
    file,           \* what the file system holds at the --code-file path
    json_error_is_request_exception,
                    \* whether the installed requests raises a RequestException
                    \* subclass from Response.json() (requests >= 2.27) or a
                    \* plain ValueError (older releases)
    pc,             \* position in main()
    args,           \* argparse Namespace
    client,         \* the ACMOJClient, PyNone before construction
    code,           \* local variable code of main()
    result,         \* local variable result of main()
    requests,       \* HTTP requests issued, in order
    reply,          \* what came back for the request in flight
    open_calls,     \* paths passed to open(), in order
    stdout,         \* lines written to standard output
    stderr,         \* lines written to standard error
    fault,          \* exception that escaped main(), "" when none
    exit_code       \* process exit status, -1 while running

vars == <<argv_token, environ_token, argv, file, json_error_is_request_exception,
          pc, args, client, code, result, requests, reply, open_calls,
          stdout, stderr, fault, exit_code>>

----------------------------------------------------------------------------
(* Bounds *)

\* problem and submission identifiers range over 1..MaxId
MaxId == 2

----------------------------------------------------------------------------
(* Python values: None, str, int, bool, dict and list, in one record shape *)

PyNone == [type |-> "NoneType", n |-> 0, s |-> "", items |-> <<>>]
PyStr(s) == [type |-> "str", n |-> 0, s |-> s, items |-> <<>>]
PyInt(n) == [type |-> "int", n |-> n, s |-> "", items |-> <<>>]
PyBool(b) == [type |-> "bool", n |-> IF b THEN 1 ELSE 0, s |-> "", items |-> <<>>]
\* a dict is its sequence of <<key, value>> pairs, in insertion order
PyDict(items) == [type |-> "dict", n |-> 0, s |-> "", items |-> items]
PyList(items) == [type |-> "list", n |-> 0, s |-> "", items |-> items]

\* Python truth value testing, as used by `not x`, `if x` and `a and b`
Truthy(v) ==
    CASE v.type = "NoneType" -> FALSE
      [] v.type = "str" -> v.s # ""
      [] v.type = "int" -> v.n # 0
      [] v.type = "bool" -> v.n # 0
      [] OTHER -> Len(v.items) > 0

RECURSIVE JoinItems(_, _)
\* json.dumps with the default separators (", " and ": ") and no indent
RECURSIVE dumps(_)
dumps(v) ==
    CASE v.type = "NoneType" -> "null"
      [] v.type = "str" -> "\"" \o v.s \o "\""
      [] v.type = "int" -> ToString(v.n)
      [] v.type = "bool" -> IF v.n # 0 THEN "true" ELSE "false"
      [] v.type = "dict" -> "{" \o JoinItems(v.items, TRUE) \o "}"
      [] OTHER -> "[" \o JoinItems(v.items, FALSE) \o "]"

JoinItems(items, keyed) ==
    IF items = <<>> THEN ""
    ELSE LET one == IF keyed
                    THEN "\"" \o Head(items)[1] \o "\": " \o dumps(Head(items)[2])
                    ELSE dumps(Head(items))
         IN IF Len(items) = 1 THEN one
            ELSE one \o ", " \o JoinItems(Tail(items), keyed)

\* print(): one more line on a stream
print(stream, line) == Append(stream, line)

----------------------------------------------------------------------------
(* What a run starts with: command line, environment, file system *)

OptionalStrings(s) == {PyNone, PyStr(""), PyStr(s)}

TokenValues == OptionalStrings("tok")
CodeFileValues == OptionalStrings("solution.cpp")
GitUrlValues == OptionalStrings("https://example.com/repo.git")
Languages == {"cpp", "git"}
Ids == 1..MaxId

\* the --code-file path on disk: absent, present but not readable as UTF-8
\* text (a directory, no permission, undecodable bytes), or a text file
FileStates ==
    {[kind |-> "missing", text |-> ""], [kind |-> "unreadable", text |-> ""],
     [kind |-> "text", text |-> ""], [kind |-> "text", text |-> "int main(){}"]}

SubmitArgv ==
    [command : {"submit"}, problem_id : Ids, language : Languages,
     code_file : CodeFileValues, git_url : GitUrlValues, submission_id : {0}]
StatusArgv ==
    [command : {"status"}, problem_id : {0}, language : {""},
     code_file : {PyNone}, git_url : {PyNone}, submission_id : Ids]

NoArgs ==
    [token |-> PyNone, command |-> "", problem_id |-> 0, language |-> "",
     code_file |-> PyNone, git_url |-> PyNone, submission_id |-> 0]

----------------------------------------------------------------------------
(* What the network can hand back to requests.get / requests.post *)

StatusCodes == {101, 200, 201, 204, 300, 304, 400, 404, 500, 503}
Contents == {"", "{}", "{\"id\":5678}", "[]", "null", "0", "<html>"}
\* requests.exceptions.RequestException subclasses raised by the call itself
TransportErrors == {"Timeout", "ConnectionError", "SSLError", "TooManyRedirects"}

NoReply == [kind |-> "none", status_code |-> 0, content |-> ""]
Replies ==
    [kind : {"response"}, status_code : StatusCodes, content : Contents]
    \cup [kind : TransportErrors, status_code : {0}, content : {""}]

\* Response.json() on the sampled bodies: the parsed value, or no value for a
\* body that is not JSON
loads(content) ==
    CASE content = "{}" -> [ok |-> TRUE, value |-> PyDict(<<>>)]
      [] content = "{\"id\":5678}" ->
            [ok |-> TRUE, value |-> PyDict(<< <<"id", PyInt(5678)>> >>)]
      [] content = "[]" -> [ok |-> TRUE, value |-> PyList(<<>>)]
      [] content = "null" -> [ok |-> TRUE, value |-> PyNone]
      [] content = "0" -> [ok |-> TRUE, value |-> PyInt(0)]
      [] OTHER -> [ok |-> FALSE, value |-> PyNone]

----------------------------------------------------------------------------
(* class ACMOJClient *)

api_base == "https://acm.sjtu.edu.cn/OnlineJudge/api/v1"

ACMOJClient(access_token) ==
    PyDict(<< <<"Authorization", PyStr("Bearer " \o access_token)>>,
              <<"Content-Type", PyStr("application/x-www-form-urlencoded")>>,
              <<"User-Agent", PyStr("ACMOJ-Python-Client/2.1")>> >>)

NoData == <<>>

\* the call _make_request makes for its method: the request put on the wire,
\* or nothing for a method that is neither GET nor POST
SendRequest(self, method, endpoint, data) ==
    IF method = "GET"
    THEN <<[method |-> "GET", url |-> api_base \o endpoint,
            headers |-> self.items, data |-> NoData]>>
    ELSE IF method = "POST"
    THEN <<[method |-> "POST", url |-> api_base \o endpoint,
            headers |-> self.items, data |-> data]>>
    ELSE <<>>

\* mutant: raise_for_status that raises for server errors only
RaisesForStatus_ServerOnly(status_code) == status_code >= 500 /\ status_code < 600

\* Response.raise_for_status(): HTTPError for 4xx and 5xx, nothing otherwise
RaisesForStatus(status_code) == status_code >= 400 /\ status_code < 600

\* str() of the HTTPError raise_for_status builds
HTTPErrorStr(status_code, url) ==
    ToString(status_code)
    \o (IF status_code < 500 THEN " Client Error" ELSE " Server Error")
    \o " for url: " \o url

\* bool(response) is Response.ok: False exactly when raise_for_status raises
ResponseBool(rep) == ~RaisesForStatus(rep.status_code)

SuccessMarker ==
    PyDict(<< <<"status", PyStr("success")>>,
              <<"message", PyStr("Operation successful")>> >>)

\* the except clause of _make_request; bound: whether the name response was
\* assigned before the exception
ExceptRequestException(rep, bound, e, out) ==
    LET out1 == print(out, "API Request failed: " \o e)
    IN [value |-> PyNone,
        out |-> IF bound /\ ResponseBool(rep)
                THEN print(out1, "Response text: " \o rep.content)
                ELSE out1,
        raised |-> ""]

\* mutant: the 204 check placed after the status and body handling
HandleResponse_204Late(rep, url, json_caught, out) ==
    IF rep.kind # "response"
    THEN ExceptRequestException(rep, FALSE, rep.kind, out)
    ELSE IF RaisesForStatus(rep.status_code)
    THEN ExceptRequestException(rep, TRUE, HTTPErrorStr(rep.status_code, url), out)
    ELSE IF rep.content # ""
    THEN IF loads(rep.content).ok
         THEN [value |-> loads(rep.content).value, out |-> out, raised |-> ""]
         ELSE IF json_caught
         THEN ExceptRequestException(rep, TRUE, "Expecting value", out)
         ELSE [value |-> PyNone, out |-> out, raised |-> "ValueError"]
    ELSE IF rep.status_code = 204
    THEN [value |-> SuccessMarker, out |-> out, raised |-> ""]
    ELSE [value |-> PyDict(<< <<"status", PyStr("success")>> >>),
          out |-> out, raised |-> ""]

\* _make_request from the return of requests.get / requests.post on: the value
\* returned, standard output after its prints, and the exception it lets through
HandleResponse(rep, url, json_caught, out) ==
    IF rep.kind # "response"
    THEN ExceptRequestException(rep, FALSE, rep.kind, out)
    ELSE IF rep.status_code = 204
    THEN [value |-> SuccessMarker, out |-> out, raised |-> ""]
    ELSE IF RaisesForStatus(rep.status_code)
    THEN ExceptRequestException(rep, TRUE, HTTPErrorStr(rep.status_code, url), out)
    ELSE IF rep.content # ""
    THEN IF loads(rep.content).ok
         THEN [value |-> loads(rep.content).value, out |-> out, raised |-> ""]
         ELSE IF json_caught
         THEN ExceptRequestException(rep, TRUE, "Expecting value", out)
         ELSE [value |-> PyNone, out |-> out, raised |-> "ValueError"]
    ELSE [value |-> PyDict(<< <<"status", PyStr("success")>> >>),
          out |-> out, raised |-> ""]

\* mutant: the two form fields filled from each other's argument
submit_solution_Swapped(self, problem_id, language, code_) ==
    SendRequest(self, "POST", "/problem/" \o ToString(problem_id) \o "/submit",
                << <<"language", code_>>, <<"code", language>> >>)

\* the request submit_solution issues
submit_solution(self, problem_id, language, code_) ==
    SendRequest(self, "POST", "/problem/" \o ToString(problem_id) \o "/submit",
                << <<"language", language>>, <<"code", code_>> >>)

\* the request get_submission_detail issues
get_submission_detail(self, submission_id) ==
    SendRequest(self, "GET", "/submission/" \o ToString(submission_id), NoData)

----------------------------------------------------------------------------
(* main() *)

Init ==
    /\ argv_token \in TokenValues
    /\ environ_token \in TokenValues
    /\ argv \in SubmitArgv \cup StatusArgv
    /\ file \in FileStates
    /\ json_error_is_request_exception \in BOOLEAN
    /\ pc = "main_84"
    /\ args = NoArgs
    /\ client = PyNone
    /\ code = PyNone
    /\ result = PyNone
    /\ requests = <<>>
    /\ reply = NoReply
    /\ open_calls = <<>>
    /\ stdout = <<>>
    /\ stderr = <<>>
    /\ fault = ""
    /\ exit_code = -1

\* the end of the process with the given status
Exit(status) == pc' = "exited" /\ exit_code' = status

\* args.token: the --token value, by default os.environ.get("ACMOJ_TOKEN")
TokenDefault(flag, env) == IF flag # PyNone THEN flag ELSE env

\* parser.parse_args()
ParseArgs ==
    /\ pc = "main_84"
    /\ args' = [token |-> TokenDefault(argv_token, environ_token),
                command |-> argv.command, problem_id |-> argv.problem_id,
                language |-> argv.language, code_file |-> argv.code_file,
                git_url |-> argv.git_url, submission_id |-> argv.submission_id]
    /\ pc' = "main_86"
    /\ UNCHANGED <<argv_token, environ_token, argv, file,
                   json_error_is_request_exception, client, code, result,
                   requests, reply, open_calls, stdout, stderr, fault, exit_code>>

\* the exit status of a process whose main() returns normally
ReturnStatus == 0

\* if not args.token: print, return; else construct the client
CheckToken ==
    /\ pc = "main_86"
    /\ \/ /\ ~Truthy(args.token)
          /\ stdout' = print(stdout, "Error: Access token not provided. Use --token or set ACMOJ_TOKEN environment variable.")
          /\ Exit(ReturnStatus)
          /\ UNCHANGED client
       \/ /\ Truthy(args.token)
          /\ client' = ACMOJClient(args.token.s)
          /\ pc' = "main_92"
          /\ UNCHANGED <<stdout, exit_code>>
    /\ UNCHANGED <<argv_token, environ_token, argv, file,
                   json_error_is_request_exception, args, code, result,
                   requests, reply, open_calls, stderr, fault>>

\* not args.code_file and not args.git_url
NeitherGiven(a) == ~Truthy(a.code_file) /\ ~Truthy(a.git_url)

\* mutant: the second operand negated
BothGiven_Negated(a) == Truthy(a.code_file) /\ ~Truthy(a.git_url)

\* args.code_file and args.git_url
BothGiven(a) == Truthy(a.code_file) /\ Truthy(a.git_url)

\* if args.command == "submit": the two payload-source checks;
\* elif args.command == "status": on to the status call
Dispatch ==
    /\ pc = "main_92"
    /\ \/ /\ args.command = "submit"
          /\ NeitherGiven(args)
          /\ stdout' = print(stdout, "Error: Either --code-file or --git-url must be provided.")
          /\ Exit(1)
       \/ /\ args.command = "submit"
          /\ ~NeitherGiven(args)
          /\ BothGiven(args)
          /\ stdout' = print(stdout, "Error: Cannot use both --code-file and --git-url at the same time.")
          /\ Exit(1)
       \/ /\ args.command = "submit"
          /\ ~NeitherGiven(args)
          /\ ~BothGiven(args)
          /\ pc' = "main_101"
          /\ UNCHANGED <<stdout, exit_code>>
       \/ /\ args.command = "status"
          /\ pc' = "main_113"
          /\ UNCHANGED <<stdout, exit_code>>
    /\ UNCHANGED <<argv_token, environ_token, argv, file,
                   json_error_is_request_exception, args, client, code, result,
                   requests, reply, open_calls, stderr, fault>>

\* an exception nobody catches: the traceback on standard error, exit status 1
Uncaught(exc) ==
    /\ fault' = exc
    /\ stderr' = print(stderr, "Traceback (most recent call last): " \o exc)
    /\ Exit(1)

\* mutant: the except clause naming PermissionError instead
CaughtByPermissionError(f) == f.kind = "unreadable"

\* the exceptions of open() and f.read() that `except FileNotFoundError` catches
CaughtByFileNotFound(f) == f.kind = "missing"

\* the try block up to the call of submit_solution: code from --git-url, or
\* from reading --code-file, and the except clause for a missing file
ResolvePayload ==
    /\ pc = "main_101"
    /\ \/ /\ Truthy(args.git_url)
          /\ code' = args.git_url
          /\ pc' = "main_107"
          /\ UNCHANGED <<open_calls, stdout, stderr, result, fault, exit_code>>
       \/ /\ ~Truthy(args.git_url)
          /\ open_calls' = Append(open_calls, args.code_file.s)
          /\ \/ /\ file.kind = "text"
                /\ code' = PyStr(file.text)
                /\ pc' = "main_107"
                /\ UNCHANGED <<stdout, stderr, result, fault, exit_code>>
             \/ /\ file.kind # "text"
                /\ CaughtByFileNotFound(file)
                /\ stdout' = print(stdout, "Error: Code file not found at " \o args.code_file.s)
                /\ result' = PyNone
                /\ pc' = "main_115"
                /\ UNCHANGED <<code, stderr, fault, exit_code>>
             \/ /\ file.kind # "text"
                /\ ~CaughtByFileNotFound(file)
                /\ Uncaught("OSError or UnicodeDecodeError")
                /\ UNCHANGED <<code, stdout, result>>
    /\ UNCHANGED <<argv_token, environ_token, argv, file,
                   json_error_is_request_exception, args, client,
                   requests, reply>>

\* result = client.submit_solution(...): up to the blocking requests.post
CallSubmit ==
    /\ pc = "main_107"
    /\ requests' = requests \o submit_solution(client, args.problem_id, args.language, code.s)
    /\ pc' = "in_flight"
    /\ UNCHANGED <<argv_token, environ_token, argv, file,
                   json_error_is_request_exception, args, client, code, result,
                   reply, open_calls, stdout, stderr, fault, exit_code>>

\* result = client.get_submission_detail(...): up to the blocking requests.get
CallStatus ==
    /\ pc = "main_113"
    /\ requests' = requests \o get_submission_detail(client, args.submission_id)
    /\ pc' = "in_flight"
    /\ UNCHANGED <<argv_token, environ_token, argv, file,
                   json_error_is_request_exception, args, client, code, result,
                   reply, open_calls, stdout, stderr, fault, exit_code>>

\* requests.get / requests.post returns or raises, and _make_request runs to
\* its return (or lets an exception through main)
Receive ==
    /\ pc = "in_flight"
    /\ \E rep \in Replies :
         LET r == HandleResponse(rep, requests[Len(requests)].url,
                                 json_error_is_request_exception, stdout)
         IN /\ reply' = rep
            /\ \/ /\ r.raised = ""
                  /\ result' = r.value
                  /\ stdout' = r.out
                  /\ pc' = "main_115"
                  /\ UNCHANGED <<stderr, fault, exit_code>>
               \/ /\ r.raised # ""
                  /\ Uncaught(r.raised)
                  /\ UNCHANGED <<result, stdout>>
    /\ UNCHANGED <<argv_token, environ_token, argv, file,
                   json_error_is_request_exception, args, client, code,
                   requests, open_calls>>

\* if result: print(json.dumps(result)) else: exit(1)
Render ==
    /\ pc = "main_115"
    /\ \/ /\ Truthy(result)
          /\ stdout' = print(stdout, dumps(result))
          /\ Exit(ReturnStatus)
       \/ /\ ~Truthy(result)
          /\ Exit(1)
          /\ UNCHANGED stdout
    /\ UNCHANGED <<argv_token, environ_token, argv, file,
                   json_error_is_request_exception, args, client, code, result,
                   requests, reply, open_calls, stderr, fault>>

Next ==
    \/ ParseArgs
    \/ CheckToken
    \/ Dispatch
    \/ ResolvePayload
    \/ CallSubmit
    \/ CallStatus
    \/ Receive
    \/ Render

Spec == Init /\ [][Next]_vars

----------------------------------------------------------------------------
(* Vocabulary of the properties, stated on the inputs of the run *)

\* an option or variable that was given a non-empty value
NonEmpty(v) == v # PyNone /\ v # PyStr("")

\* the token comes from --token when the flag is there, else from ACMOJ_TOKEN
TokenPresent == NonEmpty(IF argv_token # PyNone THEN argv_token ELSE environ_token)

NeitherSupplied == ~NonEmpty(argv.code_file) /\ ~NonEmpty(argv.git_url)
BothSupplied == NonEmpty(argv.code_file) /\ NonEmpty(argv.git_url)
ExactlyOneSupplied == ~NeitherSupplied /\ ~BothSupplied

Exited == pc = "exited"

GotResponse == reply.kind = "response"

\* a 204, or a 2xx with an empty body or a body that parses
SuccessOutcome ==
    /\ GotResponse
    /\ \/ reply.status_code = 204
       \/ /\ reply.status_code \in 200..299
          /\ reply.content \in {"", "{}", "{\"id\":5678}", "[]", "null", "0"}

HasLine(stream, line) == \E i \in 1..Len(stream) : stream[i] = line

----------------------------------------------------------------------------
(* C1 *)

\* C1: when neither --token nor ACMOJ_TOKEN yields a non-empty token, no
\* client is constructed, no HTTP request is issued, and the process exits
\* with a non-zero code.
C1_NoTokenExitsNonZero ==
    (~NonEmpty(argv_token) /\ ~NonEmpty(environ_token)) =>
        /\ client = PyNone
        /\ requests = <<>>
        /\ Exited => exit_code # 0

----------------------------------------------------------------------------
(* C2 *)

\* C2: whenever the transport client obtains a success outcome (204, success
\* status with empty body, or success status whose body parses to any JSON
\* value, {} included), the run prints that result as exactly one line of JSON
\* on standard output and exits 0; exit code 1 occurs only on a validation
\* error, a missing file, a missing token or a failed API call.
C2_SuccessPrintedExitZero ==
    Exited =>
        /\ SuccessOutcome =>
              /\ Len(stdout) = 1
              /\ stdout[1] = dumps(result)
              /\ exit_code = 0
        /\ exit_code = 1 =>
              \/ ~TokenPresent
              \/ argv.command = "submit" /\ ~ExactlyOneSupplied
              \/ open_calls # <<>> /\ file.kind # "text"
              \/ reply # NoReply /\ ~SuccessOutcome

----------------------------------------------------------------------------
(* C3 *)

\* C3: on every failing run nothing at all is written to standard output;
\* standard output carries text only when it is the single JSON line of a
\* successful result.
C3_StdoutOnlyResultLine ==
    stdout # <<>> => (Truthy(result) /\ stdout = <<dumps(result)>>)

----------------------------------------------------------------------------
(* C4 *)

\* C4: for submit with a token present, if neither or both of --code-file and
\* --git-url are supplied (given a non-empty value), no file is opened, no
\* HTTP request is issued, an error is reported and the process exits non-zero;
\* a request is issued only when exactly one of the two is supplied.
C4_PayloadSourceValidated ==
    (argv.command = "submit" /\ TokenPresent) =>
        /\ (NeitherSupplied \/ BothSupplied) =>
              /\ open_calls = <<>>
              /\ requests = <<>>
              /\ pc \in {"main_84", "main_86", "main_92", "exited"}
              /\ Exited =>
                    /\ exit_code # 0
                    /\ Len(stdout) = 1
                    /\ stdout[1] = IF NeitherSupplied
                                   THEN "Error: Either --code-file or --git-url must be provided."
                                   ELSE "Error: Cannot use both --code-file and --git-url at the same time."
        /\ requests # <<>> => ExactlyOneSupplied

\* C4 witness: a submit run with a token and both sources has exited with 1
C4_Witness ==
    /\ argv.command = "submit" /\ TokenPresent /\ BothSupplied
    /\ Exited /\ exit_code = 1 /\ requests = <<>> /\ open_calls = <<>>

----------------------------------------------------------------------------
(* C5 *)

\* C5: for submit with a token and only --code-file given, a path that does
\* not exist makes the run report the file-not-found error naming the path,
\* issue no HTTP request and exit non-zero.
C5_MissingFileReported ==
    (/\ argv.command = "submit" /\ TokenPresent
     /\ NonEmpty(argv.code_file) /\ ~NonEmpty(argv.git_url)
     /\ file.kind = "missing") =>
        /\ requests = <<>>
        /\ pc # "in_flight"
        /\ Exited =>
              /\ exit_code # 0
              /\ fault = ""
              /\ stdout = <<"Error: Code file not found at " \o argv.code_file.s>>

\* C5 witness: such a run has tried to open the file and exited with 1
C5_Witness ==
    /\ argv.command = "submit" /\ TokenPresent
    /\ NonEmpty(argv.code_file) /\ argv.git_url = PyNone
    /\ file.kind = "missing"
    /\ open_calls = <<argv.code_file.s>>
    /\ Exited /\ exit_code = 1

----------------------------------------------------------------------------
(* C6 *)

\* C6 (as claimed): every response whose status is outside 2xx (1xx and 3xx
\* as well as 4xx and 5xx) makes the operation return None, raises nothing
\* past the caller, and the process exits with code 1.
C6_NonSuccessStatusFails ==
    (GotResponse /\ reply.status_code \notin 200..299) =>
        /\ result = PyNone
        /\ fault = ""
        /\ Exited => exit_code = 1

\* C6 (amended): every response whose status is in 4xx or 5xx makes the
\* operation return None, raises nothing past the caller, and the process
\* exits with code 1, for submit and for status.
C6_ErrorStatusFails ==
    (GotResponse /\ reply.status_code \in 400..599) =>
        /\ result = PyNone
        /\ fault = ""
        /\ pc \in {"main_115", "exited"}
        /\ Exited => exit_code = 1

\* C6 witness: a status run answered 404 with a JSON body has exited with 1
C6_Witness ==
    /\ argv.command = "status"
    /\ GotResponse /\ reply.status_code = 404 /\ reply.content = "{\"id\":5678}"
    /\ Exited /\ exit_code = 1 /\ result = PyNone

----------------------------------------------------------------------------
(* C7 *)

\* C7: every failure on any path of a run (code file missing or unreadable,
\* timeout, connection failure, non-success status, success body that fails
\* to parse) is converted to the absence of a result followed by a non-zero
\* exit; no fault ever escapes main() uncaught.
C7_NoFaultEscapes ==
    /\ fault = ""
    /\ (Exited /\ ((open_calls # <<>> /\ file.kind # "text")
                   \/ (reply # NoReply /\ ~SuccessOutcome))) =>
          (result = PyNone /\ exit_code # 0)

----------------------------------------------------------------------------
(* C8 *)

\* the request the command line asks for
ExpectedRequest ==
    IF argv.command = "submit"
    THEN [method |-> "POST",
          url |-> "https://acm.sjtu.edu.cn/OnlineJudge/api/v1/problem/"
                  \o ToString(argv.problem_id) \o "/submit",
          data |-> << <<"language", argv.language>>,
                      <<"code", IF NonEmpty(argv.git_url) THEN argv.git_url.s
                                ELSE file.text>> >>]
    ELSE [method |-> "GET",
          url |-> "https://acm.sjtu.edu.cn/OnlineJudge/api/v1/submission/"
                  \o ToString(argv.submission_id),
          data |-> <<>>]

PassedValidation ==
    TokenPresent /\ (argv.command = "submit" => ExactlyOneSupplied)

OneRequestAsAsked ==
    /\ Len(requests) = 1
    /\ requests[1].method = ExpectedRequest.method
    /\ requests[1].url = ExpectedRequest.url
    /\ requests[1].data = ExpectedRequest.data
    /\ NonEmpty(argv.git_url) => open_calls = <<>>

\* C8 (as claimed): every run that passes token and argument validation
\* issues exactly one HTTP request and never a second one: submit one POST to
\* /problem/{problemId}/submit with language and code verbatim (the file text,
\* or the --git-url string with no file opened), status one GET to
\* /submission/{submissionId} with no body.  Stated for the runs in which no
\* exception escapes, so that what refutes it is a run the code handles.
C8_ExactlyOneRequest ==
    /\ Len(requests) <= 1
    /\ (Exited /\ PassedValidation /\ fault = "") => OneRequestAsAsked

\* C8 (amended): the same for every run that passes token and argument
\* validation and, when --code-file is the payload source, reads the file
\* successfully.
C8_OneRequestWhenPayloadRead ==
    /\ Len(requests) <= 1
    /\ (Exited /\ PassedValidation
        /\ (argv.command = "submit" /\ ~NonEmpty(argv.git_url) => file.kind = "text"))
          => OneRequestAsAsked
    /\ requests # <<>> => PassedValidation

\* C8 witness: a submit run has read its code file, posted it and exited
C8_Witness ==
    /\ argv.command = "submit" /\ argv.language = "cpp"
    /\ NonEmpty(argv.code_file) /\ argv.git_url = PyNone
    /\ file = [kind |-> "text", text |-> "int main(){}"]
    /\ open_calls = <<argv.code_file.s>>
    /\ Len(requests) = 1 /\ requests[1].method = "POST"
    /\ reply.kind = "Timeout"
    /\ Exited

----------------------------------------------------------------------------
(* C9 *)

\* C9: a 204 response is always normalized to exactly
\* {status: "success", message: "Operation successful"}, for GET and POST and
\* whatever the body, and the run then prints that marker and exits 0.
C9_NoContentIsSuccessMarker ==
    (GotResponse /\ reply.status_code = 204) =>
        /\ result = [type |-> "dict", n |-> 0, s |-> "",
                     items |-> << <<"status", PyStr("success")>>,
                                  <<"message", PyStr("Operation successful")>> >>]
        /\ fault = ""
        /\ pc \in {"main_115", "exited"}
        /\ Exited =>
              /\ stdout = <<"{\"status\": \"success\", \"message\": \"Operation successful\"}">>
              /\ exit_code = 0

\* C9 witness: a submit run answered 204 with a body that is not JSON has
\* printed the marker and exited with 0
C9_Witness ==
    /\ argv.command = "submit"
    /\ GotResponse /\ reply.status_code = 204 /\ reply.content = "<html>"
    /\ Exited /\ exit_code = 0 /\ Len(stdout) = 1

----------------------------------------------------------------------------
(* C10 *)

\* C10: when the server answered with a non-success status, the error report
\* of _make_request includes the raw response body text besides the failure
\* description; the body is omitted only when no response was received.
C10_ErrorReportHasBody ==
    (GotResponse /\ reply.status_code \in 400..599) =>
        HasLine(stdout, "Response text: " \o reply.content)

====
